---- MODULE Spec2Model ----
(***************************************************************************)
(* Model of the image-input resolution pipeline of mcp_openvision/server.py *)
(* (image_analysis and the helpers it calls).                              *)
(*                                                                         *)
(* Strings are sequences of one-character strings, byte strings are        *)
(* sequences of integers 0..255.  An optional value is <<>> (None) or      *)
(* <<v>> (a value).                                                        *)
(***************************************************************************)
EXTENDS Integers, Sequences, FiniteSets, TLC

VARIABLES
    image,          \* argument image of image_analysis
    project_root,   \* argument project_root (<<>>: None or "", both falsy)
    fs,             \* the files the call can name: lit, under (root), root
    pc,             \* position of the call
    calls,          \* collaborators invoked so far
    probed,         \* filesystem paths probed by load_image_from_path, in order
    response,       \* optional: the outcome of requests.get
    paths_to_try,   \* load_image_from_path: the candidate list (slots)
    base64_image,   \* optional: the payload process_image_input returned
    mime_type,      \* optional: the MIME type image_analysis derived
    mime_args,      \* optional: the arguments of the get_mime_type call that derived it
    raised,         \* optional: the exception that escaped (type and cause)
    kind,           \* optional: the branch process_image_input took
    message,        \* str() of the exception raised, as a sequence of text pieces
    params,         \* the numeric arguments of image_analysis
    api_key,        \* OPENROUTER_API_KEY in the environment (<<>>: unset or empty)
    posts,          \* number of requests.post calls made
    post_response,  \* optional: the outcome of requests.post
    status_code,    \* optional: status_code of the OpenRouterError raised
    analysis,       \* optional: the text image_analysis returned
    model,          \* argument model of image_analysis (<<>>: None)
    default_model_env,  \* OPENROUTER_DEFAULT_MODEL in the environment (<<>>: unset or empty)
    selected_model, \* optional: what get_default_model returned
    model_value     \* optional: the model named in the request

vars == <<image, project_root, fs, pc, calls, probed, response, paths_to_try,
          base64_image, mime_type, mime_args, raised, kind, message, params,
          api_key, posts, post_response, status_code, analysis, model,
          default_model_env, selected_model, model_value>>

\* the state of image_analysis outside the resolution of the image
tool_vars == <<params, api_key, posts, post_response, status_code, analysis,
               model, default_model_env, selected_model, model_value>>

(***************************************************************************)
(* Bounds of the model.                                                    *)
(***************************************************************************)
MaxFrags == 2
MaxChunks == 3

None == <<>>
Some(v) == <<v>>

(***************************************************************************)
(* String helpers (Python str methods and the regular expressions used).   *)
(***************************************************************************)
StartsWith(s, p) == Len(s) >= Len(p) /\ SubSeq(s, 1, Len(p)) = p

\* str.find, 1-based; 0 when p does not occur in s
Find(s, p) ==
    LET hits == {i \in 1..(Len(s) - Len(p) + 1) : SubSeq(s, i, i + Len(p) - 1) = p}
    IN  IF hits = {} THEN 0 ELSE CHOOSE i \in hits : \A j \in hits : i <= j

Contains(s, p) == Find(s, p) # 0

\* the longest prefix of s whose characters all lie outside stop
TakeUntil(s, stop) ==
    LET bad == {i \in 1..Len(s) : s[i] \in stop}
    IN  IF bad = {} THEN s
        ELSE SubSeq(s, 1, (CHOOSE i \in bad : \A j \in bad : i <= j) - 1)

RemoveAll(s, drop) == SelectSeq(s, LAMBDA c : c \notin drop)

Upper == {"A", "B", "C", "D", "E", "F", "G", "H", "I", "J", "K", "L", "M",
          "N", "O", "P", "Q", "R", "S", "T", "U", "V", "W", "X", "Y", "Z"}
Lower == {"a", "b", "c", "d", "e", "f", "g", "h", "i", "j", "k", "l", "m",
          "n", "o", "p", "q", "r", "s", "t", "u", "v", "w", "x", "y", "z"}
Digit == {"0", "1", "2", "3", "4", "5", "6", "7", "8", "9"}

S_data_image == <<"d", "a", "t", "a", ":", "i", "m", "a", "g", "e">>
S_base64_marker == <<"b", "a", "s", "e", "6", "4", ",">>
S_image_slash == <<"i", "m", "a", "g", "e", "/">>
S_image_jpeg == <<"i", "m", "a", "g", "e", "/", "j", "p", "e", "g">>
S_image_png == <<"i", "m", "a", "g", "e", "/", "p", "n", "g">>
S_image_webp == <<"i", "m", "a", "g", "e", "/", "w", "e", "b", "p">>
S_image_gif == <<"i", "m", "a", "g", "e", "/", "g", "i", "f">>
S_text_plain == <<"t", "e", "x", "t", "/", "p", "l", "a", "i", "n">>

(***************************************************************************)
(* encode_image_to_base64: base64.b64encode, three bytes to four           *)
(* characters, '=' padding.                                                *)
(***************************************************************************)
B64Alphabet ==
    <<"A", "B", "C", "D", "E", "F", "G", "H", "I", "J", "K", "L", "M", "N", "O", "P",
      "Q", "R", "S", "T", "U", "V", "W", "X", "Y", "Z", "a", "b", "c", "d", "e", "f",
      "g", "h", "i", "j", "k", "l", "m", "n", "o", "p", "q", "r", "s", "t", "u", "v",
      "w", "x", "y", "z", "0", "1", "2", "3", "4", "5", "6", "7", "8", "9", "+", "/">>

B64Char(n) == B64Alphabet[n + 1]

RECURSIVE encode_image_to_base64(_)
encode_image_to_base64(b) ==
    IF Len(b) = 0 THEN <<>>
    ELSE IF Len(b) = 1 THEN
        <<B64Char(b[1] \div 4), B64Char((b[1] % 4) * 16), "=", "=">>
    ELSE IF Len(b) = 2 THEN
        <<B64Char(b[1] \div 4), B64Char((b[1] % 4) * 16 + b[2] \div 16),
          B64Char((b[2] % 16) * 4), "=">>
    ELSE
        <<B64Char(b[1] \div 4), B64Char((b[1] % 4) * 16 + b[2] \div 16),
          B64Char((b[2] % 16) * 4 + b[3] \div 64), B64Char(b[3] % 64)>>
        \o encode_image_to_base64(SubSeq(b, 4, Len(b)))

(***************************************************************************)
(* is_base64                                                               *)
(***************************************************************************)
B64Chars == Upper \cup Lower \cup Digit \cup {"+", "/"}

\* re.search(r"base64,(.*)", s): the group of the leftmost match, or None.
\* '.' matches every character but the newline.
SearchBase64Marker(s) ==
    LET i == Find(s, S_base64_marker)
    IN  IF i = 0 THEN None
        ELSE Some(TakeUntil(SubSeq(s, i + Len(S_base64_marker), Len(s)), {"\n"}))

\* re.match(r"^[A-Za-z0-9+/]*={0,2}$", s); '$' also matches before one final newline
MatchesB64Pattern(s) ==
    LET t == IF Len(s) > 0 /\ s[Len(s)] = "\n" THEN SubSeq(s, 1, Len(s) - 1) ELSE s
        d == TakeUntil(t, {c \in {t[i] : i \in 1..Len(t)} : c \notin B64Chars})
        r == SubSeq(t, Len(d) + 1, Len(t))
    IN  r \in {<<>>, <<"=">>, <<"=", "=">>}

\* base64.b64decode(s) (validate=False) returns rather than raises: characters
\* outside the alphabet are discarded, a pad after two or three characters of a
\* quad ends the data, and a quad left incomplete is an error.
RECURSIVE B64Scan(_, _, _)
B64Scan(s, quad, pads) ==
    IF Len(s) = 0 THEN quad = 0
    ELSE IF s[1] = "=" THEN
        IF quad >= 2 /\ quad + pads + 1 >= 4 THEN TRUE
        ELSE B64Scan(Tail(s), quad, IF quad >= 2 THEN pads + 1 ELSE pads)
    ELSE IF s[1] \in B64Chars THEN B64Scan(Tail(s), (quad + 1) % 4, 0)
    ELSE B64Scan(Tail(s), quad, pads)

B64DecodeOk(s) == B64Scan(s, 0, 0)

MinBase64Len == 4

is_base64_off_by_one(string) ==
    LET m == IF StartsWith(string, S_data_image) THEN SearchBase64Marker(string) ELSE None
        s == IF m # None THEN m[1] ELSE string
    IN  /\ MatchesB64Pattern(s)
        /\ ~(Len(s) <= MinBase64Len)
        /\ B64DecodeOk(s)

is_base64(string) ==
    LET m == IF StartsWith(string, S_data_image) THEN SearchBase64Marker(string) ELSE None
        s == IF m # None THEN m[1] ELSE string
    IN  /\ MatchesB64Pattern(s)
        /\ ~(Len(s) < MinBase64Len)
        /\ B64DecodeOk(s)

(***************************************************************************)
(* is_url: urllib.parse.urlparse, then all([scheme, netloc]).              *)
(* urlsplit first drops tabs and newlines; the scheme is the text before   *)
(* the first ':' when it starts with a letter and holds scheme characters  *)
(* only; the netloc follows a leading '//' up to the next '/', '?' or '#'. *)
(***************************************************************************)
SchemeChars == Upper \cup Lower \cup Digit \cup {"+", "-", "."}

UrlCleaned(s) == RemoveAll(s, {"\n", "\t", "\r"})

UrlSchemeEnd(s) ==
    LET u == UrlCleaned(s)
        i == Find(u, <<":">>)
    IN  IF /\ i > 1
           /\ u[1] \in Upper \cup Lower
           /\ \A k \in 1..(i - 1) : u[k] \in SchemeChars
        THEN i ELSE 0

UrlScheme(s) == SubSeq(UrlCleaned(s), 1, UrlSchemeEnd(s) - 1)

UrlNetloc(s) ==
    LET u == UrlCleaned(s)
        rest == SubSeq(u, UrlSchemeEnd(s) + 1, Len(u))
    IN  IF StartsWith(rest, <<"/", "/">>)
        THEN TakeUntil(SubSeq(rest, 3, Len(rest)), {"/", "?", "#"})
        ELSE <<>>

\* urlsplit raises ValueError for an unbalanced '[' or ']' in the netloc
UrlParseRaises(s) ==
    LET n == UrlNetloc(s)
    IN  Contains(n, <<"[">>) # Contains(n, <<"]">>)

is_url_any(string) ==
    /\ ~UrlParseRaises(string)
    /\ (UrlScheme(string) # <<>> \/ UrlNetloc(string) # <<>>)

is_url(string) ==
    /\ ~UrlParseRaises(string)
    /\ UrlScheme(string) # <<>>
    /\ UrlNetloc(string) # <<>>

(***************************************************************************)
(* extract_mime_type_from_data_url: re.search(r"data:(image/[^;]+)", s)    *)
(***************************************************************************)
S_data_image_slash == S_data_image \o <<"/">>

extract_mime_type_from_data_url(data_url) ==
    LET hits == {i \in 1..Len(data_url) :
                    /\ StartsWith(SubSeq(data_url, i, Len(data_url)), S_data_image_slash)
                    /\ i + Len(S_data_image_slash) <= Len(data_url)
                    /\ data_url[i + Len(S_data_image_slash)] # ";"}
    IN  IF hits = {} THEN S_image_jpeg
        ELSE LET i == CHOOSE h \in hits : \A j \in hits : h <= j
             IN  S_image_slash
                 \o TakeUntil(SubSeq(data_url, i + Len(S_data_image_slash), Len(data_url)),
                              {";"})

(***************************************************************************)
(* mimetypes.guess_type: the type of the extension, or None.  A leading    *)
(* "scheme:" (no '/' or ':' before the first ':') is split off; a data:    *)
(* URL is typed by its own media type; otherwise posixpath.splitext gives  *)
(* the extension, looked up in the table of known types.                   *)
(***************************************************************************)
RFind(s, cs) ==
    LET hits == {i \in 1..Len(s) : s[i] \in cs}
    IN  IF hits = {} THEN 0 ELSE CHOOSE i \in hits : \A j \in hits : i >= j

SplitExt(p) ==
    LET sep == RFind(p, {"/"})
        dot == RFind(p, {"."})
    IN  IF dot > sep /\ \E k \in (sep + 1)..(dot - 1) : p[k] # "."
        THEN SubSeq(p, dot, Len(p)) ELSE <<>>

TypesMap(ext) ==
    CASE ext = <<".", "j", "p", "g">> -> Some(S_image_jpeg)
      [] ext = <<".", "j", "p", "e", "g">> -> Some(S_image_jpeg)
      [] ext = <<".", "p", "n", "g">> -> Some(S_image_png)
      [] ext = <<".", "g", "i", "f">> -> Some(S_image_gif)
      [] ext = <<".", "w", "e", "b", "p">> -> Some(S_image_webp)
      [] ext = <<".", "t", "x", "t">> -> Some(S_text_plain)
      [] OTHER -> None

GuessType(url) ==
    LET c == Find(url, <<":">>)
        hasScheme == c > 1 /\ \A k \in 1..(c - 1) : url[k] # "/"
        scheme == IF hasScheme THEN SubSeq(url, 1, c - 1) ELSE <<>>
        rest == IF hasScheme THEN SubSeq(url, c + 1, Len(url)) ELSE url
    IN  IF scheme = <<"d", "a", "t", "a">> THEN
            LET comma == Find(rest, <<",">>)
                head == SubSeq(rest, 1, comma - 1)
                type == TakeUntil(head, {";"})
            IN  IF comma = 0 THEN None
                ELSE IF Contains(type, <<"=">>) \/ ~Contains(type, <<"/">>)
                     THEN Some(S_text_plain) ELSE Some(type)
        ELSE TypesMap(SplitExt(rest))

(***************************************************************************)
(* get_mime_type(file_path, image_data); image_data is optional bytes.     *)
(***************************************************************************)
PNG_SIGNATURE == <<137, 80, 78, 71, 13, 10, 26, 10>>
JPEG_SIGNATURE == <<255, 216, 255>>
RIFF == <<82, 73, 70, 70>>
WEBP == <<87, 69, 66, 80>>

\* data[0:n], f.read(n): at most n bytes
ReadAtMost(data, n) == SubSeq(data, 1, IF Len(data) < n THEN Len(data) ELSE n)

WEBP_WINDOW == 12

SniffSignature(data) ==
    IF StartsWith(data, PNG_SIGNATURE) THEN Some(S_image_png)
    ELSE IF StartsWith(data, JPEG_SIGNATURE) THEN Some(S_image_jpeg)
    ELSE IF StartsWith(data, RIFF) /\ Contains(ReadAtMost(data, WEBP_WINDOW), WEBP)
         THEN Some(S_image_webp)
    ELSE None

S_octet_stream ==
    <<"a", "p", "p", "l", "i", "c", "a", "t", "i", "o", "n", "/",
      "o", "c", "t", "e", "t", "-", "s", "t", "r", "e", "a", "m">>

get_mime_type_default_octet(file_path, image_data) ==
    LET guess == GuessType(file_path)
    IN  IF guess # None /\ StartsWith(guess[1], S_image_slash) THEN guess[1]
        ELSE IF image_data # None /\ image_data[1] # <<>> /\ SniffSignature(image_data[1]) # None
             THEN SniffSignature(image_data[1])[1]
        ELSE S_octet_stream

get_mime_type_any_guess(file_path, image_data) ==
    LET guess == GuessType(file_path)
    IN  IF guess # None THEN guess[1]
        ELSE IF image_data # None /\ image_data[1] # <<>> /\ SniffSignature(image_data[1]) # None
             THEN SniffSignature(image_data[1])[1]
        ELSE S_image_jpeg

get_mime_type(file_path, image_data) ==
    LET guess == GuessType(file_path)
    IN  IF guess # None /\ StartsWith(guess[1], S_image_slash) THEN guess[1]
        ELSE IF image_data # None /\ image_data[1] # <<>> /\ SniffSignature(image_data[1]) # None
             THEN SniffSignature(image_data[1])[1]
        ELSE S_image_jpeg

(***************************************************************************)
(* pathlib.Path: str(Path(s)), Path(s).is_absolute(), Path(root) / s.      *)
(* Empty and "." components are dropped; exactly two leading slashes are   *)
(* kept; the empty path is ".".                                            *)
(***************************************************************************)
RECURSIVE PathParts(_)
PathParts(s) ==
    IF Len(s) = 0 THEN <<>>
    ELSE LET c == TakeUntil(s, {"/"})
             rest == SubSeq(s, Len(c) + 2, Len(s))
         IN  (IF c \in {<<>>, <<".">>} THEN <<>> ELSE <<c>>) \o PathParts(rest)

PathRoot(s) ==
    IF StartsWith(s, <<"/", "/">>) /\ ~StartsWith(s, <<"/", "/", "/">>) THEN <<"/", "/">>
    ELSE IF StartsWith(s, <<"/">>) THEN <<"/">>
    ELSE <<>>

RECURSIVE JoinParts(_)
JoinParts(parts) ==
    IF Len(parts) = 0 THEN <<>>
    ELSE IF Len(parts) = 1 THEN parts[1]
    ELSE parts[1] \o <<"/">> \o JoinParts(Tail(parts))

PathStr(s) ==
    IF PathRoot(s) = <<>> /\ PathParts(s) = <<>> THEN <<".">>
    ELSE PathRoot(s) \o JoinParts(PathParts(s))

is_absolute(s) == PathRoot(s) # <<>>

PathJoin(root, s) ==
    IF is_absolute(s) THEN PathStr(s) ELSE PathStr(root \o <<"/">> \o s)

(***************************************************************************)
(* The inputs: references built from at most MaxFrags fragments, so that   *)
(* data URLs, bare base64, remote URLs, absolute and relative paths and    *)
(* their malformed neighbours all occur.                                   *)
(***************************************************************************)
Frags ==
    { <<"d", "a", "t", "a", ":", "i", "m", "a", "g", "e", "/", "p", "n", "g", ";",
        "b", "a", "s", "e", "6", "4", ",">>,
      <<"d", "a", "t", "a", ":", "i", "m", "a", "g", "e", "/", "p", "n", "g", ";">>,
      <<"Q", "U", "J">>,
      <<"Q">>,
      <<"=">>,
      <<"\n">>,
      <<"h", "t", "t", "p", ":", "/", "/", "h", "/">>,
      <<"h", "t", "t", "p", ":">>,
      <<"/">>,
      <<"a", ".", "j", "p", "g">>,
      <<"a", ".", "t", "x", "t">> }

RECURSIVE Concats(_)
Concats(n) ==
    IF n = 0 THEN {<<>>}
    ELSE LET prev == Concats(n - 1)
         IN  prev \cup {p \o f : p \in prev, f \in Frags}

Refs == Concats(MaxFrags)

(***************************************************************************)
(* The environment of one call.                                            *)
(*                                                                         *)
(* fs holds the files the call can name: lit is the file at Path(image),   *)
(* under the file at project_root joined with image (for an absolute image *)
(* the file of that name below project_root), root the state of            *)
(* project_root itself.                                                    *)
(***************************************************************************)
PROJECT_ROOT == <<"/", "r">>

FileBodies ==
    { PNG_SIGNATURE \o <<0, 0, 0, 13>>,
      JPEG_SIGNATURE \o <<224>>,
      <<104, 105, 33, 10>> }

Missing == [kind |-> "missing", data |-> <<>>]
Directory == [kind |-> "dir", data |-> <<>>]
\* a regular file the process may not read
Denied == [kind |-> "denied", data |-> <<>>]

FileStates ==
    {Missing, Directory, Denied} \cup [kind : {"file"}, data : FileBodies]

\* Path(image) names the current directory, which exists
NamesCwd(path) == PathStr(path) = <<".">>

\* Path(image) names the root directory, which exists
NamesRootDir(path) == PathStr(path) \in {<<"/">>, <<"/", "/">>}

FsStates(path, root) ==
    { f \in [lit : FileStates, under : FileStates, root : {"dir", "missing"}] :
        /\ (NamesCwd(path) \/ NamesRootDir(path)) => f.lit = Directory
        /\ root = None => f.root = "missing"
        /\ f.root = "missing" => f.under = Missing
        /\ (f.root = "dir" /\ NamesCwd(path)) => f.under = Directory }

HttpStatuses == {200, 204, 301, 404}

ContentTypes == {None, Some(S_image_png), Some(S_text_plain)}

\* the outcome of requests.get: a transport-level failure (DNS, refused,
\* timeout), or a response
Responses ==
    {[transport_error |-> TRUE, status_code |-> 0, content_type |-> None, content |-> <<>>]}
    \cup [transport_error : {FALSE}, status_code : HttpStatuses,
          content_type : ContentTypes, content : FileBodies]

\* lines 302-306: the defaults of the numeric arguments; fractions are in
\* tenths (temperature 0.7 is 7)
DefaultParams ==
    [max_tokens |-> 4000, temperature |-> 7, top_p |-> None,
     presence_penalty |-> None, frequency_penalty |-> None]

\* a value of OPENROUTER_API_KEY that get_api_key accepts
API_KEY == <<"s", "k">>

Init ==
    /\ image \in Refs
    /\ project_root \in {None, PROJECT_ROOT}
    /\ fs \in FsStates(image, project_root)
    /\ pc = "start"
    /\ calls = {}
    /\ probed = <<>>
    /\ response = None
    /\ paths_to_try = <<>>
    /\ base64_image = None
    /\ mime_type = None
    /\ mime_args = None
    /\ raised = None
    /\ kind = None
    /\ message = <<>>
    /\ params = DefaultParams
    /\ api_key = API_KEY
    /\ posts = 0
    /\ post_response = None
    /\ status_code = None
    /\ analysis = None
    /\ model = None
    /\ default_model_env = <<>>
    /\ selected_model = None
    /\ model_value = None

(***************************************************************************)
(* The messages of the exceptions, as sequences of text pieces: a literal  *)
(* piece is one element, an interpolated string contributes its characters.*)
(***************************************************************************)
\* str(e) of what requests.get or raise_for_status raised, or the text of
\* line 168
FetchErrorText(r) ==
    IF r.transport_error THEN <<"Connection refused">>
    ELSE IF r.status_code >= 400 /\ r.status_code < 600
         THEN <<ToString(r.status_code), " Error">>
         ELSE <<"HTTP ", ToString(r.status_code)>>

\* lines 168 and 176
DownloadFailedMessage(url, r) ==
    <<"Failed to download image from URL: ">> \o url \o <<", error: ">>
        \o FetchErrorText(r)

\* line 203
AbsNotFoundMessage(path) ==
    <<"Image file not found at absolute path: ">> \o path

\* line 211
PermissionDeniedMessage(path) ==
    <<"Permission denied when trying to read image file at: ">> \o path

\* str(e) of the IsADirectoryError open() raises
IsADirectoryText(p) == <<"[Errno 21] Is a directory: '">> \o p \o <<"'">>

\* str(e) of the FileNotFoundError open() raises
NoSuchFileText(p) == <<"[Errno 2] No such file or directory: '">> \o p \o <<"'">>

\* str(e) of what open() raises on f, a file that is no readable regular file
OpenErrorText(f, p) ==
    IF f.kind = "missing" THEN NoSuchFileText(p) ELSE IsADirectoryText(p)

\* lines 214 and 238
ReadErrorMessage(p, err) ==
    <<"Error reading image file at: ">> \o p \o <<", error: ">> \o err

NotFoundMessage_never_root(path, root) ==
    <<"Image file not found: ">> \o path
        \o <<" (", "relative path used without specifying project_root", ")">>

\* lines 241-248; 'if project_root' is false for None and for ""
NotFoundMessage(path, root) ==
    IF root # <<>>
    THEN <<"Image file not found: ">> \o path
             \o <<" (", "tried directly and under project root: ">> \o root \o <<")">>
    ELSE <<"Image file not found: ">> \o path
             \o <<" (", "relative path used without specifying project_root", ")">>

\* lines 288-291
InvalidImageInput(msg) ==
    <<"Invalid image input: ">> \o msg
        \o <<". ", "Image must be a base64-encoded string, a URL, or a valid file path.">>

\* line 293
ErrorProcessingImage(msg) == <<"Error processing image: ">> \o msg

(***************************************************************************)
(* process_image_input: the classification and the dispatch.               *)
(***************************************************************************)
\* lines 268-273: the payload of a data URL, or None
DataUrlPayload(s) ==
    IF StartsWith(s, S_data_image) THEN SearchBase64Marker(s) ELSE None

ProcessImageInput ==
    /\ pc = "start"
    /\ IF DataUrlPayload(image) # None THEN
           /\ kind' = Some("data_url")
           /\ base64_image' = Some(DataUrlPayload(image)[1])
           /\ calls' = calls
           /\ pc' = "derive"
       ELSE IF is_base64(image) THEN
           /\ kind' = Some("base64")
           /\ base64_image' = Some(image)
           /\ calls' = calls \cup {"is_base64"}
           /\ pc' = "derive"
       ELSE IF is_url(image) THEN
           /\ kind' = Some("url")
           /\ base64_image' = base64_image
           /\ calls' = calls \cup {"is_base64", "is_url", "load_image_from_url"}
           /\ pc' = "get"
       ELSE
           /\ kind' = Some("path")
           /\ base64_image' = base64_image
           /\ calls' = calls \cup {"is_base64", "is_url", "load_image_from_path"}
           /\ pc' = "path"
    /\ UNCHANGED <<image, project_root, fs, probed, response, paths_to_try,
                   mime_type, mime_args, raised, message>>
    /\ UNCHANGED tool_vars

(***************************************************************************)
(* load_image_from_url                                                     *)
(***************************************************************************)
\* requests.Response.raise_for_status: HTTPError for 4xx and 5xx
raise_for_status(r) == r.status_code >= 400 /\ r.status_code < 600

HTTP_OK == 200

UrlLoadRaises_transport_only(r) == r.transport_error

UrlLoadRaises_error_statuses(r) ==
    r.transport_error \/ (r.status_code >= 400 /\ r.status_code < 600)

\* lines 162-177: whether load_image_from_url raises on outcome r
UrlLoadRaises(r) ==
    \/ r.transport_error
    \/ raise_for_status(r)
    \/ r.status_code # HTTP_OK

\* lines 170-173: the content type load_image_from_url computes (and drops)
UrlContentType(url, r) ==
    IF r.content_type = None \/ ~StartsWith(r.content_type[1], S_image_slash)
    THEN get_mime_type(url, Some(r.content))
    ELSE r.content_type[1]

LoadImageFromUrl ==
    /\ pc = "get"
    /\ \E r \in Responses :
        /\ response' = Some(r)
        /\ IF UrlLoadRaises(r) THEN
               /\ raised' = Some([type |-> "Exception", cause |-> "download"])
               /\ message' = DownloadFailedMessage(image, r)
               /\ base64_image' = base64_image
               /\ pc' = "failed"
           ELSE
               /\ raised' = raised
               /\ message' = message
               /\ base64_image' = Some(encode_image_to_base64(r.content))
               /\ pc' = "derive"
    /\ calls' = calls \cup {"requests.get"}
    /\ UNCHANGED <<image, project_root, fs, probed, paths_to_try, mime_type, mime_args, kind>>
    /\ UNCHANGED tool_vars

(***************************************************************************)
(* load_image_from_path, wrapped by process_image_input (lines 285-293):   *)
(* FileNotFoundError and PermissionError become ValueError("Invalid image  *)
(* input: ..."), any other exception ValueError("Error processing image"). *)
(***************************************************************************)
Wrapped(cause) == Some([type |-> "ValueError", cause |-> cause])

UsesPathDirectly_never(path) == FALSE

\* line 201: an absolute path is used directly
UsesPathDirectly(path) == is_absolute(path)

CandidatePaths_literal_only(path, root, f) == <<"lit">>

\* lines 217-224: the candidates of a relative path, as slots of fs
CandidatePaths(path, root, f) ==
    <<"lit">> \o (IF root # None /\ f.root = "dir" THEN <<"under">> ELSE <<>>)

SlotPath(slot, path, root) ==
    IF slot = "lit" THEN PathStr(path) ELSE PathJoin(root, path)

\* lines 198-224; the state of project_root is examined for a relative path
\* with a project_root only
LoadPathStart ==
    /\ pc = "path"
    /\ IF UsesPathDirectly(image) THEN
           /\ paths_to_try' = <<"lit">>
           /\ probed' = probed
           /\ pc' = "abs_exists"
       ELSE
           /\ paths_to_try' = CandidatePaths(image, project_root, fs)
           /\ probed' = IF project_root # None THEN probed \o <<project_root>> ELSE probed
           /\ pc' = "rel_exists"
    /\ UNCHANGED <<image, project_root, fs, calls, response, base64_image,
                   mime_type, mime_args, raised, kind, message>>
    /\ UNCHANGED tool_vars

\* line 202
AbsExists ==
    /\ pc = "abs_exists"
    /\ probed' = probed \o <<SlotPath("lit", image, project_root)>>
    /\ IF fs.lit.kind = "missing"
       THEN /\ raised' = Wrapped("FileNotFoundError")
            /\ message' = InvalidImageInput(AbsNotFoundMessage(image))
            /\ pc' = "failed"
       ELSE /\ raised' = raised
            /\ message' = message
            /\ pc' = "abs_open"
    /\ UNCHANGED <<image, project_root, fs, calls, response, paths_to_try,
                   base64_image, mime_type, mime_args, kind>>
    /\ UNCHANGED tool_vars

\* lines 204-214
AbsOpen ==
    /\ pc = "abs_open"
    /\ CASE fs.lit.kind = "file" ->
              /\ base64_image' = Some(encode_image_to_base64(fs.lit.data))
              /\ raised' = raised
              /\ message' = message
              /\ pc' = "derive"
         [] fs.lit.kind = "denied" ->
              /\ base64_image' = base64_image
              /\ raised' = Wrapped("PermissionError")
              /\ message' = InvalidImageInput(PermissionDeniedMessage(image))
              /\ pc' = "failed"
         [] OTHER ->
              /\ base64_image' = base64_image
              /\ raised' = Wrapped("Exception")
              /\ message' = ErrorProcessingImage(
                                 ReadErrorMessage(image, OpenErrorText(fs.lit, PathStr(image))))
              /\ pc' = "failed"
    /\ UNCHANGED <<image, project_root, fs, calls, probed, response, paths_to_try,
                   mime_type, mime_args, kind>>
    /\ UNCHANGED tool_vars

\* lines 227-228 and 240-248
RelExists ==
    /\ pc = "rel_exists"
    /\ IF paths_to_try = <<>> THEN
           /\ raised' = Wrapped("FileNotFoundError")
           /\ message' = InvalidImageInput(NotFoundMessage(image, project_root))
           /\ pc' = "failed"
           /\ UNCHANGED <<probed, paths_to_try>>
       ELSE
           /\ probed' = probed \o <<SlotPath(Head(paths_to_try), image, project_root)>>
           /\ raised' = raised
           /\ message' = message
           /\ IF fs[Head(paths_to_try)].kind = "missing"
              THEN paths_to_try' = Tail(paths_to_try) /\ pc' = pc
              ELSE paths_to_try' = paths_to_try /\ pc' = "rel_open"
    /\ UNCHANGED <<image, project_root, fs, calls, response, base64_image,
                   mime_type, mime_args, kind>>
    /\ UNCHANGED tool_vars

\* line 234: a PermissionError moves on to the next candidate
ContinuesOnPermissionError_never(f) == FALSE

ContinuesOnPermissionError_always(f) == TRUE

ContinuesOnPermissionError(f) == f.kind = "denied"

\* lines 229-238
RelOpen ==
    /\ pc = "rel_open"
    /\ LET f == fs[Head(paths_to_try)]
           p == SlotPath(Head(paths_to_try), image, project_root)
       IN  CASE f.kind = "file" ->
                  /\ base64_image' = Some(encode_image_to_base64(f.data))
                  /\ UNCHANGED <<raised, message, paths_to_try>>
                  /\ pc' = "derive"
             [] f.kind # "file" /\ ContinuesOnPermissionError(f) ->
                  /\ paths_to_try' = Tail(paths_to_try)
                  /\ UNCHANGED <<raised, message, base64_image>>
                  /\ pc' = "rel_exists"
             [] OTHER ->
                  /\ raised' = Wrapped("Exception")
                  /\ message' = ErrorProcessingImage(ReadErrorMessage(p, OpenErrorText(f, p)))
                  /\ UNCHANGED <<base64_image, paths_to_try>>
                  /\ pc' = "failed"
    /\ UNCHANGED <<image, project_root, fs, calls, probed, response, mime_type, mime_args,
                   kind>>
    /\ UNCHANGED tool_vars

(***************************************************************************)
(* image_analysis, lines 383-400: the MIME type of the outbound data URL.  *)
(***************************************************************************)
HEADER_LEN == 16

DeriveMime ==
    /\ pc = "derive"
    /\ IF StartsWith(image, S_data_image) THEN
           /\ mime_type' = Some(extract_mime_type_from_data_url(image))
           /\ mime_args' = None
           /\ pc' = "resolved"
       ELSE IF is_url(image) THEN
           /\ mime_type' = Some(get_mime_type(image, None))
           /\ mime_args' = Some(<<image, None>>)
           /\ pc' = "resolved"
       ELSE IF is_base64(image) THEN
           /\ mime_type' = Some(S_image_jpeg)
           /\ mime_args' = None
           /\ pc' = "resolved"
       ELSE
           /\ UNCHANGED <<mime_type, mime_args>>
           /\ pc' = "sniff"
    /\ UNCHANGED <<image, project_root, fs, calls, probed, response, paths_to_try,
                   base64_image, raised, kind, message>>
    /\ UNCHANGED tool_vars

\* lines 383-389: the source kind the MIME type is derived for
MimeSourceKind(s) ==
    IF StartsWith(s, S_data_image) THEN "data_url"
    ELSE IF is_url(s) THEN "url"
    ELSE IF is_base64(s) THEN "base64"
    ELSE "path"

\* lines 392-394
SniffSlot(path, root) ==
    IF ~is_absolute(path) /\ root # None THEN "under" ELSE "lit"

\* lines 391-400
SniffHeader ==
    /\ pc = "sniff"
    /\ LET slot == SniffSlot(image, project_root)
           f == fs[slot]
           name == SlotPath(slot, image, project_root)
       IN  IF f.kind = "file" THEN
               /\ mime_args' = Some(<<name, Some(ReadAtMost(f.data, HEADER_LEN))>>)
               /\ mime_type' = Some(get_mime_type(name, Some(ReadAtMost(f.data, HEADER_LEN))))
           ELSE
               /\ mime_args' = Some(<<image, None>>)
               /\ mime_type' = Some(get_mime_type(image, None))
    /\ pc' = "resolved"
    /\ UNCHANGED <<image, project_root, fs, calls, probed, response, paths_to_try,
                   base64_image, raised, kind, message>>
    /\ UNCHANGED tool_vars

\* line 445: the URL embedded in the outbound request
OutboundUrl(mime, payload) ==
    <<"d", "a", "t", "a", ":">> \o mime \o <<";">> \o S_base64_marker \o payload

Next ==
    \/ ProcessImageInput
    \/ LoadImageFromUrl
    \/ LoadPathStart
    \/ AbsExists
    \/ AbsOpen
    \/ RelExists
    \/ RelOpen
    \/ DeriveMime
    \/ SniffHeader

Spec == Init /\ [][Next]_vars

(***************************************************************************)
(* The resolution of a filesystem reference while another process writes   *)
(* to the file: the call looks at the file at line 202 or 228 (exists), at *)
(* line 205 or 230 (the payload) and again at line 395 (the header).       *)
(***************************************************************************)
\* what the other process leaves at the path: nothing, or a file
RaceStates == {Missing} \cup [kind : {"file"}, data : FileBodies]

\* references both process_image_input and image_analysis take for a path,
\* other than the directories that always exist
RaceRefs ==
    {r \in Refs : /\ MimeSourceKind(r) = "path"
                  /\ ~NamesCwd(r)
                  /\ ~NamesRootDir(r)}

InitRace ==
    /\ image \in RaceRefs
    /\ project_root = None
    /\ fs \in {f \in FsStates(image, project_root) : f.lit \in RaceStates}
    /\ pc = "start"
    /\ calls = {}
    /\ probed = <<>>
    /\ response = None
    /\ paths_to_try = <<>>
    /\ base64_image = None
    /\ mime_type = None
    /\ mime_args = None
    /\ raised = None
    /\ kind = None
    /\ message = <<>>
    /\ params = DefaultParams
    /\ api_key = API_KEY
    /\ posts = 0
    /\ post_response = None
    /\ status_code = None
    /\ analysis = None
    /\ model = None
    /\ default_model_env = <<>>
    /\ selected_model = None
    /\ model_value = None

\* the other process replaces or removes the file while the call runs
ExternalChange ==
    /\ pc \notin {"resolved", "failed"}
    /\ \E f \in RaceStates :
        /\ f # fs.lit
        /\ fs' = [fs EXCEPT !.lit = f]
    /\ UNCHANGED <<image, project_root, pc, calls, probed, response, paths_to_try,
                   base64_image, mime_type, mime_args, raised, kind, message>>
    /\ UNCHANGED tool_vars

NextRace ==
    \/ ExternalChange
    \/ ProcessImageInput
    \/ LoadPathStart
    \/ AbsExists
    \/ AbsOpen
    \/ RelExists
    \/ RelOpen
    \/ DeriveMime
    \/ SniffHeader

SpecRace == InitRace /\ [][NextRace]_vars

(***************************************************************************)
(* image_analysis as a whole: the validation of the arguments (lines       *)
(* 360-377), the resolution of the image above (lines 380-400), the        *)
(* wrapping of its failures (lines 402-414), the API key (lines 429-432)   *)
(* and the request to OpenRouter (lines 479-510).                          *)
(***************************************************************************)
MAX_TOKENS_MIN == 100

MAX_TOKENS_MAX == 8000

OutOfRange(v, lo, hi) == v < lo \/ v > hi

ValidationError_none(p) == None

\* lines 360-377: the message of the ValueError raised, or None; fractions
\* are in tenths
ValidationError(p) ==
    IF OutOfRange(p.max_tokens, MAX_TOKENS_MIN, MAX_TOKENS_MAX)
    THEN Some(<<"max_tokens must be between 100 and 4000">>)
    ELSE IF OutOfRange(p.temperature, 0, 10)
    THEN Some(<<"temperature must be between 0.0 and 1.0">>)
    ELSE IF p.top_p # None /\ OutOfRange(p.top_p[1], 0, 10)
    THEN Some(<<"top_p must be between 0.0 and 1.0">>)
    ELSE IF p.presence_penalty # None /\ OutOfRange(p.presence_penalty[1], 0, 20)
    THEN Some(<<"presence_penalty must be between 0.0 and 2.0">>)
    ELSE IF p.frequency_penalty # None /\ OutOfRange(p.frequency_penalty[1], 0, 20)
    THEN Some(<<"frequency_penalty must be between 0.0 and 2.0">>)
    ELSE None

\* the arguments tried: the defaults with one argument changed
ParamSets ==
    {[DefaultParams EXCEPT !.max_tokens = v] : v \in {99, 100, 4000, 4001, 8000, 8001}}
    \cup {[DefaultParams EXCEPT !.temperature = v] : v \in {-1, 0, 10, 11}}
    \cup {[DefaultParams EXCEPT !.top_p = Some(v)] : v \in {-1, 5, 11}}
    \cup {[DefaultParams EXCEPT !.presence_penalty = Some(v)] : v \in {-1, 20, 21}}
    \cup {[DefaultParams EXCEPT !.frequency_penalty = Some(v)] : v \in {-1, 20, 21}}

\* the references tried: one of each kind and their pairs
ToolFrags ==
    { S_data_image \o <<"/", "p", "n", "g", ";">> \o S_base64_marker,
      <<"Q", "U", "J">>,
      <<"Q">>,
      <<"h", "t", "t", "p", ":", "/", "/", "h", "/">>,
      <<"/">>,
      <<"a", ".", "j", "p", "g">> }

ToolRefs == {a \o b : a, b \in ToolFrags \cup {<<>>}}

InitTool ==
    /\ image \in ToolRefs
    /\ project_root \in {None, PROJECT_ROOT}
    /\ fs \in FsStates(image, project_root)
    /\ params \in ParamSets
    /\ api_key \in {<<>>, API_KEY}
    /\ pc = "validate"
    /\ calls = {}
    /\ probed = <<>>
    /\ response = None
    /\ paths_to_try = <<>>
    /\ base64_image = None
    /\ mime_type = None
    /\ mime_args = None
    /\ raised = None
    /\ kind = None
    /\ message = <<>>
    /\ posts = 0
    /\ post_response = None
    /\ status_code = None
    /\ analysis = None
    /\ model = None
    /\ default_model_env = <<>>
    /\ selected_model = None
    /\ model_value = None

Validate ==
    /\ pc = "validate"
    /\ IF ValidationError(params) # None THEN
           /\ raised' = Some([type |-> "ValueError", cause |-> "validation"])
           /\ message' = ValidationError(params)[1]
           /\ pc' = "error"
       ELSE
           /\ UNCHANGED <<raised, message>>
           /\ pc' = "start"
    /\ UNCHANGED <<image, project_root, fs, calls, probed, response, paths_to_try,
                   base64_image, mime_type, mime_args, kind>>
    /\ UNCHANGED tool_vars

\* lines 405-413
GUIDANCE ==
    << "Make sure your image is specified correctly:\n",
       "- For file paths, try providing the full absolute path\n",
       "- For relative paths, specify the project_root parameter\n",
       "- For URLs, ensure they are publicly accessible\n",
       "- For base64, ensure the encoding is correct\n\n",
       "Examples:\n",
       "image_analysis(image=\"/full/path/to/image.jpg\", query=\"Describe this image\")\n",
       "image_analysis(image=\"relative/path/image.jpg\", project_root=\"/root/dir\", query=\"What's in this image?\")\n",
       "image_analysis(image=\"https://example.com/image.jpg\", query=\"Analyze this image\")" >>

FailedToProcess_no_cause(msg) ==
    <<"Failed to process image: ">> \o <<"\n\n">> \o GUIDANCE

\* lines 404-413
FailedToProcess(msg) ==
    <<"Failed to process image: ">> \o msg \o <<"\n\n">> \o GUIDANCE

\* lines 402-414: whatever escaped the resolution is raised as ValueError
WrapFailure ==
    /\ pc = "failed"
    /\ raised' = Some([type |-> "ValueError", cause |-> "process"])
    /\ message' = FailedToProcess(message)
    /\ pc' = "error"
    /\ UNCHANGED <<image, project_root, fs, calls, probed, response, paths_to_try,
                   base64_image, mime_type, mime_args, kind>>
    /\ UNCHANGED tool_vars

(***************************************************************************)
(* The model of the request (lines 417-426, config.get_default_model).  A  *)
(* model identifier 'provider/name' is the sequence of its pieces.         *)
(***************************************************************************)
CLAUDE_3_5_SONNET ==
    [name |-> "CLAUDE_3_5_SONNET", value |-> <<"anthropic", "/", "claude-3-5-sonnet">>]

CLAUDE_3_OPUS ==
    [name |-> "CLAUDE_3_OPUS", value |-> <<"anthropic", "/", "claude-3-opus">>]

CLAUDE_3_SONNET ==
    [name |-> "CLAUDE_3_SONNET", value |-> <<"anthropic", "/", "claude-3-sonnet">>]

GPT_4O == [name |-> "GPT_4O", value |-> <<"openai", "/", "gpt-4o">>]

QWEN_QWQ_32B == [name |-> "QWEN_QWQ_32B", value |-> <<"qwen", "/", "qwq-32b:free">>]

QWEN_2_5_VL ==
    [name |-> "QWEN_2_5_VL", value |-> <<"qwen", "/", "qwen2.5-vl-32b-instruct:free">>]

VisionModel ==
    {CLAUDE_3_5_SONNET, CLAUDE_3_OPUS, CLAUDE_3_SONNET, GPT_4O, QWEN_QWQ_32B, QWEN_2_5_VL}

\* a plain string returned in place of a member: it has no member name
CustomModel(value) == [name |-> "", value |-> value]

\* config.py lines 51-63; 'if default_model' is false for an unset and for
\* an empty variable
get_default_model(env) ==
    IF env # <<>> THEN
        IF \E m \in VisionModel : m.value = env
        THEN CHOOSE m \in VisionModel : m.value = env
        ELSE CustomModel(env)
    ELSE QWEN_2_5_VL

\* the strings tried as a model: every provider with every name, known or not
ModelStrings ==
    {<<p, "/", n>> :
        p \in {"anthropic", "openai", "qwen", "invalid"},
        n \in {"claude-3-5-sonnet", "claude-3-opus", "claude-3-sonnet", "gpt-4o",
               "qwq-32b:free", "qwen2.5-vl-32b-instruct:free", "model-name"}}

\* lines 417-426
SelectModel ==
    /\ pc = "resolved"
    /\ IF model = None THEN
           /\ selected_model' = Some(get_default_model(default_model_env))
           /\ model_value' = Some(get_default_model(default_model_env).value)
       ELSE
           /\ selected_model' = selected_model
           /\ model_value' = Some(model)
    /\ pc' = "api_key"
    /\ UNCHANGED <<image, project_root, fs, calls, probed, response, paths_to_try,
                   base64_image, mime_type, mime_args, raised, kind, message>>
    /\ UNCHANGED <<params, api_key, posts, post_response, status_code, analysis,
                   model, default_model_env>>

\* image_analysis at line 417, the image resolved from a base64 reference:
\* every model argument with every value of OPENROUTER_DEFAULT_MODEL
InitModel ==
    /\ image = <<"Q", "U", "J", "Q">>
    /\ project_root = None
    /\ fs = [lit |-> Missing, under |-> Missing, root |-> "missing"]
    /\ pc = "resolved"
    /\ calls = {"is_base64"}
    /\ probed = <<>>
    /\ response = None
    /\ paths_to_try = <<>>
    /\ base64_image = Some(image)
    /\ mime_type = Some(S_image_jpeg)
    /\ mime_args = None
    /\ raised = None
    /\ kind = Some("base64")
    /\ message = <<>>
    /\ params = DefaultParams
    /\ api_key = API_KEY
    /\ posts = 0
    /\ post_response = None
    /\ status_code = None
    /\ analysis = None
    /\ model \in {None} \cup ModelStrings
    /\ default_model_env \in {<<>>} \cup ModelStrings
    /\ selected_model = None
    /\ model_value = None

NextModel == SelectModel

SpecModel == InitModel /\ [][NextModel]_vars

\* config.get_api_key: 'if not api_key' rejects an unset and an empty value
ApiKeyMissing(key) == key = <<>>

\* lines 429-432
GetApiKey ==
    /\ pc = "api_key"
    /\ calls' = calls \cup {"get_api_key"}
    /\ IF ApiKeyMissing(api_key) THEN
           /\ raised' = Some([type |-> "ConfigurationError", cause |-> "api_key"])
           /\ message' = << "OPENROUTER_API_KEY environment variable not set. ",
                             "Please set it to your OpenRouter API key." >>
           /\ pc' = "error"
       ELSE
           /\ UNCHANGED <<raised, message>>
           /\ pc' = "post"
    /\ UNCHANGED <<image, project_root, fs, probed, response, paths_to_try,
                   base64_image, mime_type, mime_args, kind>>
    /\ UNCHANGED tool_vars

\* bodies of the answer to the POST: a completion, JSON without the
\* choices structure, and text that is not JSON
JSON_ANALYSIS ==
    <<"{\"choices\": [{\"message\": {\"content\": \"", "A cat", "\"}}]}">>

JSON_NO_CHOICES == <<"{\"error\": \"overloaded\"}">>

NOT_JSON == <<"Unauthorized">>

PostBodies == {JSON_ANALYSIS, JSON_NO_CHOICES, NOT_JSON}

PostStatuses == {200, 401, 500}

\* the outcome of requests.post: a transport-level failure, or a response
PostResponses ==
    {[transport_error |-> TRUE, status_code |-> 0, text |-> <<>>]}
    \cup [transport_error : {FALSE}, status_code : PostStatuses, text : PostBodies]

\* line 496: response.json() parses the body
JsonParses(text) == text \in {JSON_ANALYSIS, JSON_NO_CHOICES}

\* line 497: result["choices"][0]["message"]["content"]
HasContent(text) == text = JSON_ANALYSIS

Content(text) == <<text[2]>>

\* str(e) of what requests.post or response.json() raised
TransportErrorText == <<"Connection refused">>

JsonErrorText == <<"Expecting value: line 1 column 1 (char 0)">>

\* exceptions.OpenRouterError.__init__
OpenRouterMessage(status, msg) ==
    <<"OpenRouter API error (", ToString(status), "): ">> \o msg

PostErrorStatus_always_zero(r) == 0

\* lines 493, 506, 510: the status_code of the OpenRouterError
PostErrorStatus(r) ==
    IF r.transport_error \/ r.status_code = HTTP_OK THEN 0 ELSE r.status_code

\* lines 493, 504, 508: the message handed to OpenRouterError.  With
\* requests >= 2.28 (setup.py) the error of response.json() is a
\* RequestException, so it is caught at line 503
PostErrorDetail(r) ==
    IF r.transport_error
    THEN <<"Network error when connecting to OpenRouter: ">> \o TransportErrorText
    ELSE IF r.status_code # HTTP_OK THEN r.text
    ELSE <<"Network error when connecting to OpenRouter: ">> \o JsonErrorText

\* lines 479-510
Post ==
    /\ pc = "post"
    /\ posts' = posts + 1
    /\ calls' = calls \cup {"requests.post"}
    /\ \E r \in PostResponses :
        /\ post_response' = Some(r)
        /\ IF r.transport_error \/ r.status_code # HTTP_OK \/ ~JsonParses(r.text) THEN
               /\ raised' = Some([type |-> "OpenRouterError", cause |-> "post"])
               /\ status_code' = Some(PostErrorStatus(r))
               /\ message' = OpenRouterMessage(PostErrorStatus(r), PostErrorDetail(r))
               /\ analysis' = analysis
               /\ pc' = "error"
           ELSE IF ~HasContent(r.text) THEN
               /\ raised' = Some([type |-> "KeyError", cause |-> "post"])
               /\ status_code' = status_code
               /\ message' = <<"'choices'">>
               /\ analysis' = analysis
               /\ pc' = "error"
           ELSE
               /\ UNCHANGED <<raised, status_code, message>>
               /\ analysis' = Some(Content(r.text))
               /\ pc' = "done"
    /\ UNCHANGED <<image, project_root, fs, probed, response, paths_to_try,
                   base64_image, mime_type, mime_args, kind, params, api_key,
                   model, default_model_env, selected_model, model_value>>

NextTool ==
    \/ Validate
    \/ Next
    \/ WrapFailure
    \/ SelectModel
    \/ GetApiKey
    \/ Post

SpecTool == InitTool /\ [][NextTool]_vars

(***************************************************************************)
(* get_mime_type on its own: every name of SniffNames with every byte      *)
(* string of at most MaxChunks chunks, or with no bytes.                   *)
(***************************************************************************)
Chunks == {PNG_SIGNATURE, JPEG_SIGNATURE, RIFF, WEBP, <<0, 0, 0, 0>>}

RECURSIVE ByteStrings(_)
ByteStrings(n) ==
    IF n = 0 THEN {<<>>}
    ELSE LET prev == ByteStrings(n - 1)
         IN  prev \cup {p \o c : p \in prev, c \in Chunks}

SniffNames == {<<>>} \cup Frags

InitMime ==
    /\ image \in SniffNames
    /\ \E data \in {None} \cup {Some(b) : b \in ByteStrings(MaxChunks)} :
           mime_args = Some(<<image, data>>)
    /\ project_root = None
    /\ fs = [lit |-> Missing, under |-> Missing, root |-> "missing"]
    /\ pc = "get_mime_type"
    /\ calls = {}
    /\ probed = <<>>
    /\ response = None
    /\ paths_to_try = <<>>
    /\ base64_image = None
    /\ mime_type = None
    /\ raised = None
    /\ kind = None
    /\ message = <<>>
    /\ params = DefaultParams
    /\ api_key = API_KEY
    /\ posts = 0
    /\ post_response = None
    /\ status_code = None
    /\ analysis = None
    /\ model = None
    /\ default_model_env = <<>>
    /\ selected_model = None
    /\ model_value = None

GetMimeType ==
    /\ pc = "get_mime_type"
    /\ mime_type' = Some(get_mime_type(mime_args[1][1], mime_args[1][2]))
    /\ pc' = "returned"
    /\ UNCHANGED <<image, project_root, fs, calls, probed, response, paths_to_try,
                   base64_image, mime_args, raised, kind, message>>
    /\ UNCHANGED tool_vars

NextMime == GetMimeType

SpecMime == InitMime /\ [][NextMime]_vars

(***************************************************************************)
(* Properties.                                                             *)
(***************************************************************************)
Finished == pc \in {"resolved", "failed"}

Loaders == {"load_image_from_url", "load_image_from_path", "requests.get"}

\* the text of s after the first occurrence of marker
AfterMarker(s, marker) == SubSeq(s, Find(s, marker) + Len(marker), Len(s))

\* C1: a reference that begins with 'data:image' and contains 'base64,' is
\* treated as a data URL (no base64 test, no URL fetch, no file read) and the
\* payload returned is exactly the text after the 'base64,' marker.
C1_DataUrlPayloadIsRest ==
    (pc # "start" /\ StartsWith(image, S_data_image) /\ Contains(image, S_base64_marker))
    => /\ kind = Some("data_url")
       /\ calls = {}
       /\ probed = <<>>
       /\ base64_image = Some(AfterMarker(image, S_base64_marker))

\* a string of length >= 4 of base64 characters followed by at most two '='
\* that decodes: the data characters fill whole quads, or a quad of two is
\* completed by two pads, or a quad of three by at least one
Base64Shaped(s) ==
    LET d == TakeUntil(s, {"="})
        k == Len(s) - Len(d)
    IN  /\ Len(s) >= 4
        /\ \A i \in 1..Len(d) : d[i] \in B64Chars
        /\ \A i \in (Len(d) + 1)..Len(s) : s[i] = "="
        /\ k <= 2
        /\ \/ Len(d) % 4 = 0
           \/ Len(d) % 4 = 2 /\ k = 2
           \/ Len(d) % 4 = 3 /\ k >= 1

\* C2: a decodable base64 string of length >= 4 is returned unchanged and
\* neither loader is called, whatever the filesystem holds under that name.
C2_Base64PassesThrough ==
    (pc # "start" /\ Base64Shaped(image))
    => /\ kind = Some("base64")
       /\ base64_image = Some(image)
       /\ calls \cap Loaders = {}
       /\ probed = <<>>
       /\ response = None

\* the base64 string /QUJ is also the absolute path of an existing file
C2_Witness ==
    /\ pc = "resolved"
    /\ image = <<"/", "Q", "U", "J">>
    /\ fs.lit.kind = "file"
    /\ base64_image = Some(image)

HasSchemeAndHost(s) ==
    /\ ~UrlParseRaises(s)
    /\ UrlScheme(s) # <<>>
    /\ UrlNetloc(s) # <<>>

\* C3: a reference whose URI parse has a scheme and a host is dispatched to
\* load_image_from_url, never to the base64 or the filesystem branch; a
\* reference that lacks a scheme or a host is never dispatched to it.
C3_UrlDispatch ==
    pc # "start"
    => /\ HasSchemeAndHost(image)
          => /\ kind = Some("url")
             /\ "load_image_from_url" \in calls
             /\ "load_image_from_path" \notin calls
             /\ probed = <<>>
       /\ ~HasSchemeAndHost(image)
          => /\ kind # Some("url")
             /\ calls \cap {"load_image_from_url", "requests.get"} = {}
             /\ response = None

C3_Witness ==
    /\ pc = "resolved"
    /\ image = <<"h", "t", "t", "p", ":", "/", "/", "h", "/", "a", ".", "j", "p", "g">>
    /\ kind = Some("url")
    /\ response # None

\* C4: a reference that begins with 'data:image' and holds no 'base64,'
\* marker fails as malformed input: it is classified as a data URL and is not
\* handed to the base64 test, the URL loader or the filesystem loader.
C4_MalformedDataUrlFails ==
    (Finished /\ StartsWith(image, S_data_image) /\ ~Contains(image, S_base64_marker))
    => /\ pc = "failed"
       /\ kind = Some("data_url")
       /\ calls \cap ({"is_base64"} \cup Loaders) = {}
       /\ probed = <<>>

\* re.search finds a 'data:image/<type>' in s
HasDataUrlMime(s) ==
    \E i \in 1..Len(s) :
        /\ StartsWith(SubSeq(s, i, Len(s)), S_data_image_slash)
        /\ i + Len(S_data_image_slash) <= Len(s)
        /\ s[i + Len(S_data_image_slash)] # ";"

IsImageType(t) == t # None /\ StartsWith(t[1], S_image_slash)

\* no strategy detects a type: no type in a data URL, no image extension of
\* the name examined, no signature in the bytes examined
NoDetection ==
    /\ ~(StartsWith(image, S_data_image) /\ HasDataUrlMime(image))
    /\ mime_args # None
       => /\ ~IsImageType(GuessType(mime_args[1][1]))
          /\ mime_args[1][2] # None => SniffSignature(mime_args[1][2][1]) = None

\* C5: for every reference resolved successfully the MIME type of the
\* outbound data URL starts with 'image/', and it is 'image/jpeg' when no
\* detection strategy succeeds.
C5_MimeIsImage ==
    pc = "resolved"
    => /\ mime_type # None
       /\ base64_image # None
       /\ StartsWith(mime_type[1], S_image_slash)
       /\ StartsWith(OutboundUrl(mime_type[1], base64_image[1]), S_data_image_slash)
       /\ NoDetection => mime_type[1] = S_image_jpeg

\* a file named a.txt that holds no known signature resolves to image/jpeg
C5_Witness ==
    /\ pc = "resolved"
    /\ kind = Some("path")
    /\ image = <<"a", ".", "t", "x", "t">>
    /\ mime_args # None
    /\ mime_args[1][2] # None
    /\ NoDetection
    /\ mime_type = Some(S_image_jpeg)

\* C6: get_mime_type(name, bytes) returns the extension-based guess when it
\* starts with 'image/'; otherwise, given bytes, the type of the first
\* matching signature (PNG, JPEG, WebP); otherwise 'image/jpeg'.  A guess
\* that does not start with 'image/' is never returned.
C6_GetMimeTypeContract ==
    (pc = "returned" /\ mime_args # None)
    => LET name == mime_args[1][1]
           data == mime_args[1][2]
           guess == GuessType(name)
           m == mime_type[1]
           given == data # None /\ data[1] # <<>>
           png == given /\ StartsWith(data[1], PNG_SIGNATURE)
           jpeg == given /\ StartsWith(data[1], JPEG_SIGNATURE)
           webp == given /\ StartsWith(data[1], RIFF)
                         /\ Contains(ReadAtMost(data[1], WEBP_WINDOW), WEBP)
       IN  /\ IsImageType(guess) => m = guess[1]
           /\ (~IsImageType(guess) /\ png) => m = S_image_png
           /\ (~IsImageType(guess) /\ ~png /\ jpeg) => m = S_image_jpeg
           /\ (~IsImageType(guess) /\ ~png /\ ~jpeg /\ webp) => m = S_image_webp
           /\ (~IsImageType(guess) /\ ~png /\ ~jpeg /\ ~webp) => m = S_image_jpeg
           /\ (guess # None /\ ~IsImageType(guess)) => m # guess[1]

\* a.txt with PNG bytes: the text/plain guess is dropped for the signature
C6_Witness ==
    /\ pc = "returned"
    /\ mime_args # None
    /\ mime_args[1][1] = <<"a", ".", "t", "x", "t">>
    /\ mime_args[1][2] = Some(PNG_SIGNATURE \o <<0, 0, 0, 0>>)
    /\ mime_type = Some(S_image_png)

\* C7: bytes that begin with the PNG signature give 'image/png' and bytes
\* that begin with FF D8 FF give 'image/jpeg', whatever the extension of the
\* name, as for a file named *.jpg that holds PNG bytes.
C7_SignatureBeatsExtension ==
    (pc = "resolved" /\ mime_args # None /\ mime_args[1][2] # None)
    => LET data == mime_args[1][2][1]
       IN  /\ StartsWith(data, PNG_SIGNATURE) => mime_type = Some(S_image_png)
           /\ StartsWith(data, JPEG_SIGNATURE) => mime_type = Some(S_image_jpeg)

\* C8: for a remote URL that loads, the MIME type of the resolved image is
\* the response's Content-Type when that starts with 'image/', and otherwise
\* comes from the signature of the response body.
C8_MimeFromResponse ==
    (pc = "resolved" /\ kind = Some("url"))
    => LET r == response[1]
       IN  mime_type =
               IF IsImageType(r.content_type) THEN r.content_type
               ELSE IF SniffSignature(r.content) # None THEN SniffSignature(r.content)
               ELSE Some(S_image_jpeg)

\* C9: load_image_from_url raises and produces no payload whenever the GET
\* answers with a status outside 2xx or fails at transport level.
C9_FetchFailureRaises ==
    (response # None
     /\ (response[1].transport_error
         \/ response[1].status_code < 200 \/ response[1].status_code > 299))
    => /\ pc = "failed"
       /\ raised # None
       /\ base64_image = None
       /\ mime_type = None

C9_Witness ==
    /\ pc = "failed"
    /\ response # None
    /\ ~response[1].transport_error
    /\ response[1].status_code = 404
    /\ base64_image = None

\* C10: for an absolute path load_image_from_path probes that one path only:
\* project_root is neither examined nor joined, and a missing file raises
\* FileNotFoundError even when a file of that name exists below project_root.
C10_AbsolutePathOnly ==
    (kind = Some("path") /\ StartsWith(image, <<"/">>))
    => /\ \A i \in 1..Len(probed) : probed[i] = PathStr(image)
       /\ Len(paths_to_try) <= 1
       /\ (Finished /\ fs.lit = Missing)
          => /\ pc = "failed"
             /\ raised = Wrapped("FileNotFoundError")
             /\ base64_image = None

C10_Witness ==
    /\ pc = "failed"
    /\ kind = Some("path")
    /\ StartsWith(image, <<"/">>)
    /\ project_root # None
    /\ fs.lit = Missing
    /\ fs.under.kind = "file"
    /\ probed = <<PathStr(image)>>

(***************************************************************************)
(* load_image_from_path on a relative path.                                *)
(***************************************************************************)
RelativePathCall == kind = Some("path") /\ ~StartsWith(image, <<"/">>)

\* the payload is in hand: the loader returned
Loaded == pc \in {"derive", "sniff", "resolved"}

\* project_root is supplied and is an existing directory
RootIsDirectory == project_root # None /\ fs.root = "dir"

\* the candidate probes made so far: probed without the look at project_root
CandidateProbes ==
    IF project_root # None /\ probed # <<>> THEN Tail(probed) ELSE probed

IsPrefix(a, b) == Len(a) <= Len(b) /\ SubSeq(b, 1, Len(a)) = a

\* a candidate that does not stop the walk: absent, or unreadable for
\* permissions
PassedOver(f) == f = Missing \/ f = Denied

\* C11: for a relative path the path as given is probed first and
\* project_root joined with the path second, the latter only if project_root
\* is supplied and is an existing directory; the payload is the base64 of the
\* first candidate that exists and is read; a file that exists only under
\* project_root is found and returned.
C11_RelativeCandidatesInOrder ==
    RelativePathCall
    => /\ IsPrefix(CandidateProbes,
                   <<PathStr(image)>>
                       \o (IF RootIsDirectory THEN <<PathJoin(project_root, image)>>
                           ELSE <<>>))
       /\ Loaded
          => \/ /\ fs.lit.kind = "file"
                /\ base64_image = Some(encode_image_to_base64(fs.lit.data))
             \/ /\ PassedOver(fs.lit)
                /\ RootIsDirectory
                /\ fs.under.kind = "file"
                /\ base64_image = Some(encode_image_to_base64(fs.under.data))
       /\ (Finished /\ fs.lit = Missing /\ RootIsDirectory /\ fs.under.kind = "file")
          => /\ pc = "resolved"
             /\ base64_image = Some(encode_image_to_base64(fs.under.data))

\* a.jpg is absent as given and a file under project_root
C11_Witness ==
    /\ pc = "resolved"
    /\ RelativePathCall
    /\ image = <<"a", ".", "j", "p", "g">>
    /\ fs.lit = Missing
    /\ fs.under.kind = "file"
    /\ probed = <<project_root, PathStr(image), PathJoin(project_root, image)>>
    /\ base64_image = Some(encode_image_to_base64(fs.under.data))

\* C12: for a relative path a permission error on the path as given does not
\* end the resolution: the candidate under project_root is still probed, a
\* readable file there is returned, and failure comes only after every
\* candidate was probed.
C12_PermissionErrorContinues ==
    (RelativePathCall /\ fs.lit = Denied)
    => /\ (Finished /\ RootIsDirectory /\ fs.under.kind = "file")
          => /\ pc = "resolved"
             /\ base64_image = Some(encode_image_to_base64(fs.under.data))
       /\ pc = "failed"
          => CandidateProbes =
                 <<PathStr(image)>>
                     \o (IF RootIsDirectory THEN <<PathJoin(project_root, image)>>
                         ELSE <<>>)

C12_Witness ==
    /\ pc = "resolved"
    /\ RelativePathCall
    /\ fs.lit = Denied
    /\ fs.under.kind = "file"
    /\ base64_image = Some(encode_image_to_base64(fs.under.data))

\* the file at the candidate probed last
LastTried ==
    IF probed[Len(probed)] = PathStr(image) THEN fs.lit ELSE fs.under

\* C13: when the last candidate tried exists and cannot be read for
\* permissions, the error is PermissionError, not a not-found error, for
\* absolute and relative paths alike.
C13_LastDeniedIsAccessDenied ==
    (Finished /\ kind = Some("path") /\ probed # <<>> /\ LastTried = Denied)
    => /\ pc = "failed"
       /\ raised = Wrapped("PermissionError")

NoCandidateExists == fs.lit = Missing /\ (RootIsDirectory => fs.under = Missing)

TriedUnderRoot == <<"tried directly and under project root: ">>

WithoutProjectRoot == <<"relative path used without specifying project_root">>

\* C14: when no candidate of a relative path exists the error is
\* FileNotFoundError; its message holds 'tried directly and under project
\* root: <root>' when project_root was supplied and 'relative path used
\* without specifying project_root' when it was not, never the other one.
C14_NotFoundMessages ==
    /\ (Finished /\ RelativePathCall /\ NoCandidateExists)
       => /\ pc = "failed"
          /\ raised = Wrapped("FileNotFoundError")
          /\ project_root # None
             => /\ Contains(message, TriedUnderRoot \o project_root)
                /\ ~Contains(message, WithoutProjectRoot)
          /\ project_root = None
             => /\ Contains(message, WithoutProjectRoot)
                /\ ~Contains(message, TriedUnderRoot)
    /\ Contains(message, TriedUnderRoot) => project_root # None
    /\ Contains(message, WithoutProjectRoot) => project_root = None

C14_Witness ==
    /\ pc = "failed"
    /\ RelativePathCall
    /\ project_root = PROJECT_ROOT
    /\ fs.root = "dir"
    /\ NoCandidateExists
    /\ Contains(message, TriedUnderRoot \o project_root)

\* C15: the empty string is classified as a filesystem path and the load
\* fails with a not-found error.
C15_EmptyStringNotFound ==
    (Finished /\ image = <<>>)
    => /\ kind = Some("path")
       /\ pc = "failed"
       /\ raised = Wrapped("FileNotFoundError")

\* C20: every failure of process_image_input is raised as ValueError: file
\* not found, permission denied, read error and download failure alike.
C20_FailuresAreValueError ==
    pc = "failed" => (raised # None /\ raised[1].type = "ValueError")

(***************************************************************************)
(* image_analysis as a whole.                                              *)
(***************************************************************************)
Ended == pc \in {"error", "done"}

\* the resolution of the image failed: the GET did not answer 200, or the
\* reference went to the filesystem and no payload came back
ResolutionFailed ==
    \/ response # None
       /\ (response[1].transport_error \/ response[1].status_code # 200)
    \/ kind = Some("path") /\ base64_image = None /\ pc \notin {"path", "abs_exists",
                                                               "abs_open", "rel_exists",
                                                               "rel_open"}

\* the text between 'Failed to process image: ' and the guidance
CauseText == SubSeq(message, 2, Len(message) - Len(GUIDANCE) - 1)

\* C16: whenever the resolution of the image fails, for every kind of source
\* and every cause, image_analysis raises ValueError whose message is
\* 'Failed to process image: ', the message of the cause, and the guidance
\* on the accepted forms; no failure is swallowed.
C16_ResolutionFailureWrapped ==
    (Ended /\ ResolutionFailed)
    => /\ pc = "error"
       /\ raised = Some([type |-> "ValueError", cause |-> "process"])
       /\ base64_image = None
       /\ posts = 0
       /\ message = <<"Failed to process image: ">> \o CauseText \o <<"\n\n">> \o GUIDANCE
       /\ kind = Some("url") => CauseText = DownloadFailedMessage(image, response[1])
       /\ kind = Some("path")
          => /\ CauseText[1] \in {"Invalid image input: ", "Error processing image: "}
             /\ CauseText[2] \in {"Image file not found: ",
                                  "Image file not found at absolute path: ",
                                  "Permission denied when trying to read image file at: ",
                                  "Error reading image file at: "}

C16_Witness ==
    /\ pc = "error"
    /\ kind = Some("url")
    /\ response # None
    /\ response[1].status_code = 404
    /\ raised = Some([type |-> "ValueError", cause |-> "process"])
    /\ CauseText = DownloadFailedMessage(image, response[1])

ArgumentsInvalid ==
    \/ params.max_tokens < 100
    \/ params.max_tokens > 8000
    \/ params.temperature < 0
    \/ params.temperature > 10
    \/ params.top_p # None /\ (params.top_p[1] < 0 \/ params.top_p[1] > 10)
    \/ params.presence_penalty # None
       /\ (params.presence_penalty[1] < 0 \/ params.presence_penalty[1] > 20)
    \/ params.frequency_penalty # None
       /\ (params.frequency_penalty[1] < 0 \/ params.frequency_penalty[1] > 20)

\* C17: one invocation makes at most one POST (an answer other than 200 and
\* a transport error are not retried) and none when the validation of the
\* arguments, the resolution of the image or the lookup of the API key fails.
C17_AtMostOnePost ==
    /\ posts <= 1
    /\ (post_response # None) => (posts = 1 /\ Ended)
    /\ (ArgumentsInvalid \/ ResolutionFailed \/ api_key = <<>>)
       => (posts = 0 /\ post_response = None /\ "requests.post" \notin calls)

\* the POST answered 500 and was not repeated
C17_Witness ==
    /\ pc = "error"
    /\ posts = 1
    /\ post_response # None
    /\ ~post_response[1].transport_error
    /\ post_response[1].status_code = 500
    /\ raised = Some([type |-> "OpenRouterError", cause |-> "post"])

\* C18: with OPENROUTER_API_KEY unset or empty image_analysis raises
\* ConfigurationError before any network call: neither the GET of a remote
\* image nor the POST happens.
C18_NoNetworkWithoutKey ==
    (Ended /\ api_key = <<>> /\ ~ArgumentsInvalid)
    => /\ raised = Some([type |-> "ConfigurationError", cause |-> "api_key"])
       /\ "requests.get" \notin calls
       /\ "requests.post" \notin calls

\* C19: an answer to the POST with a status other than 200 raises
\* OpenRouterError with that status and the response body in the message; a
\* transport failure and a body that is not JSON raise OpenRouterError with
\* status_code 0 and the message of the cause.
C19_PostErrors ==
    post_response # None
    => LET r == post_response[1]
       IN  /\ (~r.transport_error /\ r.status_code # 200)
              => /\ raised = Some([type |-> "OpenRouterError", cause |-> "post"])
                 /\ status_code = Some(r.status_code)
                 /\ Contains(message, r.text)
           /\ r.transport_error
              => /\ raised = Some([type |-> "OpenRouterError", cause |-> "post"])
                 /\ status_code = Some(0)
                 /\ Contains(message, TransportErrorText)
           /\ (~r.transport_error /\ r.status_code = 200 /\ r.text = NOT_JSON)
              => /\ raised = Some([type |-> "OpenRouterError", cause |-> "post"])
                 /\ status_code = Some(0)
                 /\ Contains(message, JsonErrorText)

C19_Witness ==
    /\ pc = "error"
    /\ post_response # None
    /\ ~post_response[1].transport_error
    /\ post_response[1].status_code = 401
    /\ post_response[1].text = NOT_JSON
    /\ status_code = Some(401)
    /\ Contains(message, NOT_JSON)

(***************************************************************************)
(* The file behind the payload and the file behind the MIME type.          *)
(***************************************************************************)
\* the candidate whose bytes load_image_from_path returned
ResolvedSlot ==
    IF StartsWith(image, <<"/">>) \/ fs.lit.kind = "file" THEN "lit" ELSE "under"

\* C21: for a filesystem reference the MIME type reported is sniffed from the
\* resolved file, the candidate whose bytes are the payload: the path as
\* given when it exists and is readable, else the path under project_root.
C21_MimeFromResolvedFile ==
    (pc = "resolved" /\ kind = Some("path") /\ ~StartsWith(image, S_data_image))
    => LET name == SlotPath(ResolvedSlot, image, project_root)
           data == fs[ResolvedSlot].data
       IN  /\ base64_image = Some(encode_image_to_base64(data))
           /\ mime_type = Some(get_mime_type(name, Some(ReadAtMost(data, 16))))

\* C25: the source kind image_analysis derives the MIME type for is the
\* source kind process_image_input produced the payload from, for every
\* reference.
C25_SameSourceKind ==
    pc = "resolved" => kind = Some(MimeSourceKind(image))

\* C26: the not-found message says the path was tried under the project root
\* only if that candidate was probed, i.e. project_root was supplied and is
\* an existing directory.
C26_TriedUnderRootWasProbed ==
    Contains(message, TriedUnderRoot)
    => /\ RootIsDirectory
       /\ \E i \in 1..Len(CandidateProbes) :
              CandidateProbes[i] = PathJoin(project_root, image)

\* C27: load_image_from_url returns a payload exactly when the GET completes
\* with status 200, and the payload is the base64 of the response body;
\* every other status, 2xx other than 200 included, raises.
C27_PayloadIffStatus200 ==
    response # None
    => LET r == response[1]
       IN  /\ (base64_image # None) <=> (~r.transport_error /\ r.status_code = 200)
           /\ base64_image # None
              => /\ base64_image = Some(encode_image_to_base64(r.content))
                 /\ raised = None
           /\ base64_image = None
              => /\ pc = "failed"
                 /\ raised = Some([type |-> "Exception", cause |-> "download"])

\* the GET answered 204
C27_Witness ==
    /\ pc = "failed"
    /\ response # None
    /\ ~response[1].transport_error
    /\ response[1].status_code = 204
    /\ base64_image = None
    /\ message = DownloadFailedMessage(image, response[1])

\* C28: for a relative path whose literal candidate exists and cannot be
\* read for a reason other than permissions (it is a directory),
\* load_image_from_path raises at once and does not probe the candidate
\* under project_root, even if a readable file is there.
C28_ReadErrorRaisesAtOnce ==
    (RelativePathCall /\ fs.lit = Directory)
    => /\ IsPrefix(CandidateProbes, <<PathStr(image)>>)
       /\ base64_image = None
       /\ Finished
          => /\ pc = "failed"
             /\ raised = Wrapped("Exception")
             /\ message[1] = "Error processing image: "

C28_Witness ==
    /\ pc = "failed"
    /\ RelativePathCall
    /\ image = <<"a", ".", "j", "p", "g">>
    /\ fs.lit = Directory
    /\ RootIsDirectory
    /\ fs.under.kind = "file"
    /\ CandidateProbes = <<PathStr(image)>>
    /\ raised = Wrapped("Exception")

\* C22: max_tokens is accepted in the documented range 100..4000 only: a
\* value below 100 or above 4000 raises ValueError('max_tokens must be
\* between 100 and 4000') before the image is processed or a request sent.
C22_MaxTokensDocumentedRange ==
    (pc # "validate" /\ (params.max_tokens < 100 \/ params.max_tokens > 4000))
    => /\ pc = "error"
       /\ raised = Some([type |-> "ValueError", cause |-> "validation"])
       /\ message = <<"max_tokens must be between 100 and 4000">>
       /\ kind = None
       /\ calls = {}
       /\ posts = 0

\* C29: an invocation that made the POST ends by returning the text at
\* choices[0].message.content or by raising OpenRouterError; no other
\* exception escapes, also for a 200 answer whose JSON lacks that structure.
C29_OnlyOpenRouterErrorAfterPost ==
    (posts > 0 /\ Ended)
    => \/ /\ pc = "done"
          /\ analysis = Some(<<"A cat">>)
       \/ /\ pc = "error"
          /\ raised # None
          /\ raised[1].type = "OpenRouterError"

\* the four bytes of data at offset 8 are 'WEBP'
WebpAtOffset8(data) == Len(data) >= 12 /\ SubSeq(data, 9, 12) = WEBP

\* C24: signature sniffing reports 'image/webp' exactly for bytes that start
\* with 'RIFF' and carry 'WEBP' at offset 8; 'RIFF' with 'WEBP' at another
\* offset is not reported as 'image/webp'.
C24_WebpAtOffset8Only ==
    (pc = "returned" /\ mime_args # None /\ mime_args[1][2] # None
     /\ ~IsImageType(GuessType(mime_args[1][1])))
    => LET data == mime_args[1][2][1]
       IN  (mime_type = Some(S_image_webp))
           <=> (StartsWith(data, RIFF) /\ WebpAtOffset8(data))

\* the member of VisionModel whose value is v, if any
KnownModel(v) == {m \in VisionModel : m.value = v}

\* C23: get_default_model returns the fallback VisionModel.QWEN_QWQ_32B when
\* OPENROUTER_DEFAULT_MODEL is unset or names no member of VisionModel, and
\* the matching member when it holds a known model value.
C23_DefaultModelFallback ==
    selected_model # None
    => /\ KnownModel(default_model_env) = {}
          => selected_model = Some(QWEN_QWQ_32B)
       /\ KnownModel(default_model_env) # {}
          => selected_model[1] \in KnownModel(default_model_env)

\* C30: for a filesystem reference the payload and the MIME type describe
\* one snapshot of the file: however another process replaces or removes the
\* file during the call, the call fails or the MIME type reported is the one
\* derived from the very bytes encoded in the payload.
C30_OneSnapshot ==
    (pc = "resolved" /\ kind = Some("path"))
    => \E b \in FileBodies :
           /\ base64_image = Some(encode_image_to_base64(b))
           /\ mime_type = Some(get_mime_type(PathStr(image), Some(ReadAtMost(b, 16))))

====
